---- MODULE Spec2Model ----
(***************************************************************************)
(* Job queue, worker loop and pipeline executor of the elasticsearch-rag-  *)
(* manager backend (backend/main.py, backend/utils/_job_management.py,     *)
(* backend/utils/_execute_job.py).                                         *)
(*                                                                         *)
(* Two threads of control exist: the asyncio event loop, which runs the    *)
(* request handlers (add_jobs, get_job_manager_status) and the start_jobs  *)
(* coroutine, and the worker thread that asyncio.to_thread starts for      *)
(* start_job.  Code between two awaits of the event loop is one atomic     *)
(* action; every assignment of the worker thread that the event loop can   *)
(* observe (execute.current_step, info, output) is an action of its own.   *)
(***************************************************************************)
EXTENDS Integers, Sequences, FiniteSets, TLC

\* ------------------------------------------------------------------ bounds
\* config.max_queue_length is 50 (backend/config.py:5); the deque's maxlen is
\* scaled down so that a full queue is reached with a few jobs.
max_queue_length == 2
\* number of jobs submitted over a whole behaviour
MaxJobs == 3
\* number of jobs of one add_jobs request
MaxBatch == 2
\* number of start_jobs tasks the event loop can hold
MaxTasks == 2

JobIds == 1..MaxJobs
TaskIds == 1..MaxTasks

\* ------------------------------------------------------------------- jobs
\* A job is the dict add_jobs builds: "settings" (parsed JSON) and "text_file".
\*   type : settings["target_index_type"]
\*          ("other": a string that is none of the three index types,
\*           "missing": the key is absent)
\*   form : "ok"       every key start_job and the stages read is there
\*          "no_type"  settings lacks "target_index_type" (malformed settings)
\*          "no_title" properties lacks "original_full_text_data_title", the
\*                     key start_job and get_status_summary read as the title
\*   ifv  : settings has the key "index_name_full_vector"
JobShapes ==
    { [type |-> "full_text",     form |-> "ok",          ifv |-> TRUE ],
      [type |-> "full_text",     form |-> "ok",          ifv |-> FALSE],
      [type |-> "full_vector",   form |-> "ok",          ifv |-> TRUE ],
      [type |-> "chunked_pairs", form |-> "ok",          ifv |-> TRUE ],
      [type |-> "other",         form |-> "ok",          ifv |-> TRUE ],
      [type |-> "missing",       form |-> "no_type",     ifv |-> TRUE ],
      [type |-> "full_vector",   form |-> "no_title",    ifv |-> TRUE ] }

MkJob(i, s) == [id |-> i, type |-> s.type, form |-> s.form, ifv |-> s.ifv]

\* self.current_job = {}
EmptyJob == [id |-> 0, type |-> "none", form |-> "none", ifv |-> FALSE]
\* self.info = None
NoInfo == [id |-> 0, type |-> "none", form |-> "none", ifv |-> FALSE]

\* ------------------------------------------------------------------ state
VARIABLES
    queue,          \* _JobManagement.queue: the deque, oldest job first
    status,         \* _JobManagement.status: "idle" or "busy"
    current_job,    \* _JobManagement.current_job
    current_step,   \* execute.current_step
    info,           \* execute.info
    output,         \* execute.output, by the shape of the value it holds
    task,           \* the start_jobs tasks of the event loop and their threads
    nextId,         \* identity of the next job add_jobs builds
    reply,          \* what the step just taken returned to its HTTP client
    dequeued,       \* history: ids of the jobs start_jobs took with popleft
    step_owner,     \* history: id of the job whose run last wrote current_step
    run_order,      \* history: the ids of the dequeued jobs, in dequeue order
    jobs_history,   \* _JobManagement.jobs_history
    calc            \* the locals of one stage computation followed step by step

\* the variables of the job manager, the executor and the request handlers
progVars == <<queue, status, current_job, current_step, info, output, task,
              nextId, reply, dequeued, step_owner, run_order, jobs_history>>

vars == <<queue, status, current_job, current_step, info, output, task,
          nextId, reply, dequeued, step_owner, run_order, jobs_history, calc>>

\* A task slot: pc is the position of the start_jobs coroutine and of the
\* start_job thread it awaits; job, trace, result and exc are the thread's
\* locals (trace: the distinct values current_step took since execute.start
\* was entered; exc: execute.start was left by an exception; starts: the calls
\* of execute.start the thread made; calls: the calls the run issued to the
\* document store that change it, post_add_data and post_modify_data, each
\* with the index it names and whether it returned).
NoTask == [pc |-> "none", job |-> EmptyJob, trace |-> <<>>,
           result |-> "none", exc |-> FALSE, starts |-> 0, calls |-> <<>>]

\* no stage computation is followed
NoCalc == [kind |-> "none"]

\* A reply is the return value of a request handler: kind "add_jobs" with the
\* queue sizes before and after (busy: the status the request found, kept for
\* the record), kind "summary" with Title (the job's id stands for it), Type,
\* Step and Length (owner: step_owner when the summary was taken), or kind
\* "error" when the handler raised. A step that answers no request leaves
\* kind "none".
Reply(kind, n1, n2, busy, job, type, step, owner) ==
    [kind |-> kind, before |-> n1, after |-> n2, busy |-> busy, job |-> job,
     type |-> type, step |-> step, owner |-> owner]
NoReply == Reply("none", 0, 0, FALSE, 0, "None", "None", 0)

\* the application objects as main.py constructs them
Constructed ==
    /\ queue = <<>>
    /\ status = "idle"
    /\ current_job = EmptyJob
    /\ current_step = "idle"
    /\ info = NoInfo
    /\ output = "None"
    /\ task = [t \in TaskIds |-> NoTask]
    /\ nextId = 1
    /\ reply = NoReply
    /\ dequeued = {}
    /\ step_owner = 0
    /\ run_order = <<>>
    /\ jobs_history = [success |-> <<>>, failed |-> <<>>]

Init == Constructed /\ calc = NoCalc

\* -------------------------------------------------------------- the queue
\* deque.append on a deque without maxlen
DequeAppend_unbounded(q, job) == Append(q, job)

\* a full queue that refuses the new item
DequeAppend_dropnew(q, job) ==
    IF Len(q) >= max_queue_length THEN q ELSE Append(q, job)

\* deque(maxlen=cfg.max_queue_length).append: a full deque discards its
\* leftmost item to make room
DequeAppend(q, job) ==
    IF Len(q) >= max_queue_length THEN Append(Tail(q), job) ELSE Append(q, job)

RECURSIVE add_new_jobs(_, _)
add_new_jobs(q, jobs) ==
    IF jobs = <<>> THEN q
    ELSE add_new_jobs(DequeAppend(q, Head(jobs)), Tail(jobs))

\* ids of the jobs in a sequence of jobs
Ids(q) == {q[k].id : k \in 1..Len(q)}

\* ---------------------------------------------------- add_jobs (main.py)
\* a guard that lets every request start a worker
ShouldStartWorker_always(st) == TRUE

\* an add_jobs that never starts the worker
ShouldStartWorker_never(st) == FALSE

\* main.py:258  if job_manager.status == "idle":
ShouldStartWorker(st) == st = "idle"

\* the status left as it was found
StartedStatus_unset == "idle"

\* main.py:259  job_manager.status = "busy"
StartedStatus == "busy"

\* the task slot asyncio.create_task takes
FreeTask == CHOOSE t \in TaskIds : task[t].pc = "none" /\
                \A u \in TaskIds : task[u].pc = "none" => t <= u

\* the job lists of one request: up to n jobs, each of any shape
BatchesOf(n) == UNION {[1..k -> JobShapes] : k \in 0..n}
Min(a, b) == IF a <= b THEN a ELSE b

\* POST /post/add-jobs/: from the build of the job list to the response there
\* is no await, so the handler's work on the job manager is one step.
AddJobs(shapes) ==
    /\ nextId + Len(shapes) - 1 <= MaxJobs
    /\ LET jobs == [k \in 1..Len(shapes) |-> MkJob(nextId + k - 1, shapes[k])]
           q2   == add_new_jobs(queue, jobs)
       IN  /\ queue' = q2
           /\ nextId' = nextId + Len(shapes)
           /\ reply' = Reply("add_jobs", Len(queue), Len(q2), status = "busy",
                             0, "None", "None", 0)
           /\ IF ShouldStartWorker(status)
              THEN /\ \E t \in TaskIds : task[t].pc = "none"
                   /\ status' = StartedStatus
                   /\ task' = [task EXCEPT ![FreeTask].pc = "created"]
              ELSE UNCHANGED <<status, task>>
    /\ UNCHANGED <<current_job, current_step, info, output, dequeued,
                   step_owner, run_order, jobs_history, calc>>

\* --------------------------------- get_status_summary (_job_management.py)
\* GET /get/job-manager-status/: runs on the event loop without an await. A
\* current job whose settings lack the type or title key makes the handler
\* raise KeyError (lines 129-132): the request fails and returns no summary.
get_status_summary ==
    IF current_job = EmptyJob
    THEN Reply("summary", 0, Len(queue), FALSE, 0, "None", "None", 0)
    ELSE IF current_job.form # "ok"
    THEN Reply("error", 0, 0, FALSE, 0, "None", "None", 0)
    ELSE Reply("summary", 0, Len(queue), FALSE, current_job.id,
               current_job.type, current_step, step_owner)

GetStatus ==
    /\ reply' = get_status_summary
    /\ UNCHANGED <<queue, status, current_job, current_step, info, output,
                   task, nextId, dequeued, step_owner, run_order, jobs_history, calc>>

\* ------------------------------------- start_jobs (_job_management.py)
\* deque.pop: the rightmost item and the deque without it
popleft_right(q) == <<q[Len(q)], SubSeq(q, 1, Len(q) - 1)>>

\* a read of the leftmost item that leaves it in the deque
popleft_peek(q) == <<Head(q), q>>

\* deque.popleft, line 51: the leftmost item and the deque without it
popleft(q) == <<Head(q), Tail(q)>>

\* From the test of `while self.queue:` to the next await (line 59) or to the
\* end of the coroutine (line 63); cj is current_job as the test finds it.
WhileQueue(t, cj) ==
    IF queue # <<>>
    THEN /\ current_job' = popleft(queue)[1]
         /\ queue' = popleft(queue)[2]
         /\ dequeued' = dequeued \cup {popleft(queue)[1].id}
         /\ run_order' = Append(run_order, popleft(queue)[1].id)
         /\ task' = [task EXCEPT ![t] = [NoTask EXCEPT !.pc = "start_job"]]
         /\ UNCHANGED status
    ELSE /\ status' = "idle"
         /\ current_job' = cj
         /\ task' = [task EXCEPT ![t] = NoTask]
         /\ UNCHANGED <<queue, dequeued, run_order>>

\* the task made by asyncio.create_task gets its first turn on the event loop
TaskStart(t) ==
    /\ task[t].pc = "created"
    /\ WhileQueue(t, current_job)
    /\ reply' = NoReply
    /\ UNCHANGED <<current_step, info, output, nextId, step_owner, jobs_history, calc>>

\* the await of line 59 completes: lines 60-61, then the loop test again. An
\* exception of start_job would leave the coroutine at line 59 and end the
\* task with status and current_job untouched.
WorkerResume(t) ==
    /\ task[t].pc \in {"returned", "raised"}
    /\ IF task[t].pc = "raised"
       THEN /\ task' = [task EXCEPT ![t].pc = "crashed"]
            /\ UNCHANGED <<queue, status, current_job, dequeued, run_order>>
       ELSE WhileQueue(t, EmptyJob)
    /\ reply' = NoReply
    /\ UNCHANGED <<current_step, info, output, nextId, step_owner, jobs_history, calc>>

\* --------------------------------------- start_job (_job_management.py)
\* an except clause that lets the exception go on to the caller
start_job_except_reraise(tk) == [tk EXCEPT !.pc = "raised", !.result = "raised"]

\* lines 111-115: `except Exception` of the second try block; start_job
\* returns {"status": False, ...}
start_job_except(tk) == [tk EXCEPT !.pc = "returned", !.result = "failed"]

\* The thread starts: the first try block (lines 86-97) reads self.current_job.
\* When settings lack target_index_type the KeyError is caught and logged, the
\* name target_index_type stays unbound, and line 100 raises UnboundLocalError
\* inside the second try block before execute.start is called.
StartJobBegin(t) ==
    /\ task[t].pc = "start_job"
    /\ LET tk == [task[t] EXCEPT !.job = current_job]
       IN  task' = [task EXCEPT ![t] =
                       IF current_job.form = "no_type" \/ current_job = EmptyJob
                       THEN start_job_except(tk)
                       ELSE [tk EXCEPT !.pc = "execute_start"]]
    /\ reply' = NoReply
    /\ UNCHANGED <<queue, status, current_job, current_step, info, output,
                   nextId, dequeued, step_owner, run_order, jobs_history, calc>>

\* ------------------------------------------- execute (_execute_job.py)
\* the stages each method of the executor calls, in order
add_full_text == <<"extract_text", "modify_properties", "add_to_es">>
add_full_vector ==
    <<"retrieve_text", "chunk_text", "embed_text", "modify_properties", "add_to_es">>
add_chunked_pairs ==
    <<"retrieve_text", "chunk_text", "embed_text", "modify_properties", "add_to_es">>

\* execute.start, lines 258-263: the dispatch on job_type; a job_type that
\* matches no branch runs no stage
StagesOf(job_type) ==
    CASE job_type = "full_text" -> add_full_text
      [] job_type = "full_vector" -> add_full_vector
      [] job_type = "chunked_pairs" -> add_chunked_pairs
      [] OTHER -> <<>>

\* where the thread goes when the stage at position k of the method has returned
RECURSIVE IndexOf(_, _)
IndexOf(seq, x) == IF seq = <<>> \/ Head(seq) = x THEN 1 ELSE 1 + IndexOf(Tail(seq), x)

AfterStage(job_type, stage) ==
    LET st == StagesOf(job_type)
        k  == IndexOf(st, stage)
    IN  IF k < Len(st) THEN st[k + 1] ELSE "reset"

\* the distinct values of current_step, in order
Push(tr, s) == IF tr # <<>> /\ tr[Len(tr)] = s THEN tr ELSE Append(tr, s)

\* start, line 256, and the dispatch
ExecuteStart(t) ==
    /\ task[t].pc = "execute_start"
    /\ info' = task[t].job
    /\ LET st == StagesOf(task[t].job.type)
       IN  task' = [task EXCEPT ![t].trace = <<current_step>>,
                                ![t].starts = @ + 1,
                                ![t].pc = IF st = <<>> THEN "reset" ELSE st[1]]
    /\ reply' = NoReply
    /\ UNCHANGED <<queue, status, current_job, current_step, output, nextId,
                   dequeued, step_owner, run_order, jobs_history, calc>>

\* a step name that is not the one the method writes
StepName_typo(method) == "step"

\* the string each method assigns to self.current_step in its first line
StepName(method) ==
    CASE method = "extract_text" -> "extract_text"
      [] method = "modify_properties" -> "modify_properties"
      [] method = "add_to_es" -> "add_to_es"
      [] method = "modify_data" -> "modify_data"
      [] method = "retrieve_text" -> "retrieve_text"
      [] method = "chunk_text" -> "chunk_text"
      [] method = "embed_text" -> "embed_text"

\* A stage method: it assigns current_step, then works; the work returns (the
\* thread goes on to `next`, self.output holds `out`) or raises, and the
\* exception leaves execute.start (which has no try) for start_job's except
\* clause. A method that finds self.info None raises TypeError.
Stage(t, method, out, next, mayRaise) ==
    /\ task[t].pc = method
    /\ current_step' = StepName(method)
    /\ step_owner' = task[t].job.id
    /\ \E ok \in BOOLEAN :
          /\ ok => info # NoInfo
          /\ ~ok => mayRaise \/ info = NoInfo
          /\ IF ok
             THEN /\ output' = out
                  /\ task' = [task EXCEPT ![t].trace = Push(@, StepName(method)),
                                          ![t].pc = next]
             ELSE /\ output' = output
                  /\ task' = [task EXCEPT ![t] =
                                 start_job_except(
                                    [@ EXCEPT !.trace = Push(@, StepName(method)),
                                              !.exc = TRUE])]
    /\ reply' = NoReply
    /\ UNCHANGED <<queue, status, current_job, info, nextId, dequeued,
                   run_order, jobs_history, calc>>

\* extract_text, lines 57-65: the extraction collaborator, then json.dumps
ExtractText(t) ==
    Stage(t, "extract_text", "text", AfterStage(task[t].job.type, "extract_text"), TRUE)

\* retrieve_text, lines 118-148: the document store's get, then json.loads
RetrieveText(t) ==
    Stage(t, "retrieve_text", "dict", AfterStage(task[t].job.type, "retrieve_text"), TRUE)

\* chunk_text, lines 192-202: the chunking strategy of the job's type
ChunkText(t) ==
    Stage(t, "chunk_text", "chunks", AfterStage(task[t].job.type, "chunk_text"), TRUE)

\* embed_text, lines 151-189: the embedding provider, batch by batch
EmbedText(t) ==
    Stage(t, "embed_text", IF info.type = "full_vector" THEN "vector" ELSE "pairs",
          AfterStage(task[t].job.type, "embed_text"), TRUE)

\* modify_properties, lines 68-83: dict updates; a settings dict without the
\* index name of its type raises KeyError
ModifyProperties(t) ==
    Stage(t, "modify_properties", output,
          AfterStage(task[t].job.type, "modify_properties"), TRUE)

\* The index a store call names. A data index is the one the settings name
\* under index_name_<type> (lines 99, 103, 108); the metadata index is
\* metadata_<type> (line 113), its record the one of metadata_index_modify_id.
DataIndex(inf) == [kind |-> "index_name", type |-> inf.type]
MetadataIndex(inf) == [kind |-> "metadata", type |-> inf.type]

\* _ElasticSearch.post_add_data, lines 91-99: one client_sync.index call on
\* index_name; it returns the response or logs and re-raises
post_add_data(index_name, ok) ==
    [op |-> "post_add_data", index |-> index_name, ok |-> ok]

\* _ElasticSearch.post_modify_data, lines 102-139: get the record, set
\* latest_update and add 1 to number_of_data, update the record; nothing in
\* it is caught, so it returns after the update or raises before it
post_modify_data(modify_index_name, ok) ==
    [op |-> "post_modify_data", index |-> modify_index_name, ok |-> ok]

\* the except clause of add_to_es written as `raise`
add_to_es_except_reraise(tk) == start_job_except([tk EXCEPT !.exc = TRUE])

\* add_to_es lines 114-115: `except Exception` logs and add_to_es returns
add_to_es_except(tk) == [tk EXCEPT !.pc = AfterStage(tk.job.type, "add_to_es")]

\* a primary write whose exception is swallowed: the metadata update follows
post_add_data_raised_swallowed(tk) == [tk EXCEPT !.pc = "modify_data"]

\* add_to_es lines 97-109: the post_add_data calls are outside the try, so
\* the exception post_add_data re-raises leaves add_to_es and execute.start
post_add_data_raised(tk) == start_job_except([tk EXCEPT !.exc = TRUE])

\* add_to_es, lines 90-113: the primary write (post_add_data re-raises, and
\* the exception leaves execute.start), then the arguments of the modify_data
\* call are evaluated inside the try: without the key index_name_full_vector
\* the KeyError is caught and logged and modify_data is not called.
AddToEs(t) ==
    /\ task[t].pc = "add_to_es"
    /\ current_step' = StepName("add_to_es")
    /\ step_owner' = task[t].job.id
    /\ \E ok \in BOOLEAN :
          /\ ok => info # NoInfo
          /\ LET tk == [task[t] EXCEPT
                          !.trace = Push(@, StepName("add_to_es")),
                          !.calls = IF info = NoInfo THEN @
                                    ELSE Append(@, post_add_data(DataIndex(info), ok))]
             IN  task' = [task EXCEPT ![t] =
                            IF ~ok THEN post_add_data_raised(tk)
                            ELSE IF info.ifv THEN [tk EXCEPT !.pc = "modify_data"]
                            ELSE add_to_es_except(tk)]
    /\ reply' = NoReply
    /\ UNCHANGED <<queue, status, current_job, info, output, nextId, dequeued,
                   run_order, jobs_history, calc>>

\* modify_data, lines 34-54, called from add_to_es line 113: it assigns
\* current_step and calls post_modify_data on the metadata record; an
\* exception (of the store, or the TypeError of a None self.info) is caught
\* at line 114 and add_to_es returns normally either way.
ModifyData(t) ==
    /\ task[t].pc = "modify_data"
    /\ current_step' = StepName("modify_data")
    /\ step_owner' = task[t].job.id
    /\ \E ok \in BOOLEAN :
          /\ ok => info # NoInfo
          /\ LET tk == [task[t] EXCEPT
                          !.trace = Push(@, StepName("modify_data")),
                          !.calls = IF info = NoInfo THEN @
                                    ELSE Append(@, post_modify_data(MetadataIndex(info), ok))]
             IN  task' = [task EXCEPT ![t] =
                            IF ok THEN [tk EXCEPT !.pc = AfterStage(tk.job.type, "add_to_es")]
                            ELSE add_to_es_except(tk)]
    /\ reply' = NoReply
    /\ UNCHANGED <<queue, status, current_job, info, output, nextId, dequeued,
                   run_order, jobs_history, calc>>

\* start, lines 265-270: the reset and `return True`; back in start_job,
\* line 109 logs _title, an unbound name when the title key was missing: the
\* UnboundLocalError is caught by the except clause of line 111.
Reset(t) ==
    /\ task[t].pc = "reset"
    /\ info' = NoInfo
    /\ output' = "None"
    /\ current_step' = "idle"
    /\ step_owner' = task[t].job.id
    /\ LET tk == [task[t] EXCEPT !.trace = Push(@, "idle")]
       IN  task' = [task EXCEPT ![t] =
                       IF tk.job.form = "no_title"
                       THEN start_job_except(tk)
                       ELSE [tk EXCEPT !.pc = "returned", !.result = "True"]]
    /\ reply' = NoReply
    /\ UNCHANGED <<queue, status, current_job, nextId, dequeued, run_order,
                   jobs_history, calc>>

\* ------------------------------------------------------ the specification
Worker(t) ==
    \/ TaskStart(t)
    \/ WorkerResume(t)
    \/ StartJobBegin(t)
    \/ ExecuteStart(t)
    \/ ExtractText(t)
    \/ RetrieveText(t)
    \/ ChunkText(t)
    \/ EmbedText(t)
    \/ ModifyProperties(t)
    \/ AddToEs(t)
    \/ ModifyData(t)
    \/ Reset(t)

Next ==
    \/ \E shapes \in BatchesOf(Min(MaxBatch, MaxJobs + 1 - nextId)) : AddJobs(shapes)
    \/ GetStatus
    \/ \E t \in TaskIds : Worker(t)

Spec == Init /\ [][Next]_vars

\* The event loop runs every ready task, the thread pool runs the thread it
\* was given, and every collaborator call returns or raises: no step of the
\* worker waits for ever.
FairSpec == Spec /\ \A t \in TaskIds : WF_vars(Worker(t))

TypeOK ==
    /\ Len(queue) \in 0..(MaxJobs + 1)
    /\ status \in {"idle", "busy"}
    /\ nextId \in 1..(MaxJobs + 1)
    /\ dequeued \subseteq JobIds

\* ------------------------------------------------------------ vocabulary
Methods == {"extract_text", "modify_properties", "add_to_es", "modify_data",
            "retrieve_text", "chunk_text", "embed_text"}

\* the thread of task t is inside execute.start
InExecutor(t) == task[t].pc \in Methods \cup {"reset"}

\* the thread of task t exists: started by to_thread, not yet joined
InThread(t) == task[t].pc \in Methods \cup {"start_job", "execute_start", "reset",
                                            "returned", "raised"}

\* the start_jobs coroutine of task t is created and has not ended
LoopActive(t) == task[t].pc \notin {"none", "crashed"}

Range(seq) == {seq[k] : k \in 1..Len(seq)}

\* jobs appended to the queue that are neither in it nor were dequeued
Lost == (1..(nextId - 1)) \ (Ids(queue) \cup dequeued)

\* ----------------------------------------------------------------- claims

\* C1: at every instant at most one job is inside the executor pipeline:
\* execute.start is never running for two jobs at the same time, whatever
\* the interleaving of add_jobs requests, status requests and the worker.
C1_AtMostOneJobInPipeline == Cardinality({t \in TaskIds : InExecutor(t)}) <= 1

\* a job is inside execute.start when an add_jobs request has just found the
\* worker busy and left a job waiting in the queue
C1_Witness ==
    /\ \E t \in TaskIds : InExecutor(t)
    /\ reply.kind = "add_jobs" /\ reply.busy
    /\ queue # <<>>

\* C2: starting the worker while its status is busy is a no-op (the request
\* changes neither the tasks nor the status), and at most one start_jobs loop
\* is active over the queue after any sequence of add_jobs calls.
C2_SingleWorkerLoop ==
    /\ [](Cardinality({t \in TaskIds : LoopActive(t)}) <= 1)
    /\ [][(reply'.kind = "add_jobs" /\ status = "busy")
            => (task' = task /\ status' = "busy")]_vars

\* an add_jobs request arrived while the worker thread was running a job
C2_Witness ==
    /\ reply.kind = "add_jobs" /\ reply.busy /\ reply.after > reply.before
    /\ \E t \in TaskIds : InThread(t) /\ task[t].job # EmptyJob
    /\ Cardinality({t \in TaskIds : LoopActive(t)}) = 1

\* C3: no job that was accepted into the queue ever leaves it other than by
\* the worker dequeuing it (a submission past max_queue_length is rejected or
\* its eviction reported; the add_jobs reply has no field for either).
C3_NoSilentLoss == Lost = {} \/ reply.kind \in {"CapacityError", "evicted"}

\* C4: after any sequence of add_new_jobs calls and worker dequeues the queue
\* holds at most max_queue_length jobs.
C4_QueueWithinCapacity == Len(queue) <= max_queue_length

\* the queue is full and an append has pushed a job out of it
C4_Witness == Len(queue) = max_queue_length /\ Lost # {}

\* C5: a failure of a job (a stage that raises, malformed settings) aborts only
\* that job: start_job never raises into the worker loop, and when it has
\* returned a failure the worker clears current_job and either dequeues and
\* starts the next queued job or, the queue being empty, goes idle.
C5_FailureAbortsOnlyThatJob ==
    /\ [](\A t \in TaskIds : task[t].pc \notin {"raised", "crashed"})
    /\ [][\A t \in TaskIds :
            (task[t].pc = "returned" /\ task[t].result = "failed" /\ task'[t] # task[t])
            => IF queue = <<>>
               THEN current_job' = EmptyJob /\ status' = "idle" /\ task'[t] = NoTask
               ELSE current_job' = Head(queue) /\ task'[t].pc = "start_job"]_vars

\* after a job failed in a stage (its step is still in current_step) the next
\* job has been dequeued and its thread is about to enter the executor
C5_Witness ==
    \E t \in TaskIds :
        /\ task[t].pc = "execute_start"
        /\ current_step # "idle"
        /\ Cardinality(dequeued) >= 2

\* C6: when a stage raises, the executor's context is reset before the
\* exception reaches the worker: after execute.start exits by exception,
\* current_step is idle and info and output are cleared.
C6_ContextResetOnException ==
    \A t \in TaskIds :
        (task[t].pc = "returned" /\ task[t].exc)
        => (current_step = "idle" /\ info = NoInfo /\ output = "None")

\* the stage sequences of section 4.2 of the specification
PipelineShape(type) ==
    IF type = "full_text"
    THEN <<"idle", "extract_text", "modify_properties", "add_to_es", "idle">>
    ELSE <<"idle", "retrieve_text", "chunk_text", "embed_text",
           "modify_properties", "add_to_es", "idle">>

\* C7: for a job that completes successfully the sequence of distinct
\* current_step values taken during its run is exactly the pipeline shape of
\* its target type, with no skipped, repeated or extra step.
C7_StepSequenceIsPipelineShape ==
    \A t \in TaskIds :
        (/\ task[t].pc = "returned"
         /\ ~task[t].exc
         /\ task[t].trace # <<>>
         /\ task[t].job.type \in {"full_text", "full_vector", "chunked_pairs"})
        => task[t].trace = PipelineShape(task[t].job.type)

C9_SnapshotConsistent ==
    (reply.kind = "summary" /\ reply.job # 0)
    => /\ reply.step = "idle" \/ reply.owner = reply.job
       /\ reply.step \in Range(PipelineShape(reply.type))

\* C10: under fair scheduling every job that is in the queue is eventually
\* dequeued and run, and the worker returns to status idle with an empty
\* queue and no current job.
C10_EveryQueuedJobRuns ==
    /\ \A j \in JobIds : (j \in Ids(queue)) ~> (j \in dequeued)
    /\ []<>(status = "idle" /\ queue = <<>> /\ current_job = EmptyJob)

\* ------------------------------------------------- claims on the job runs

\* the job types start dispatches on, lines 258-263
PipelineTypes == {"full_text", "full_vector", "chunked_pairs"}

\* the keys of the dict get_status_summary returns, lines 136-149
SummaryKeys == {"Current Job info", "Queue info"}

\* the calls of one run to the store with operation op
CallsOf(t, op) == {k \in DOMAIN task[t].calls : task[t].calls[k].op = op}

\* the calls of one run to the store that failed
FailedCalls(t) == {k \in DOMAIN task[t].calls : ~task[t].calls[k].ok}

\* what one run added to number_of_data of the record ix: post_modify_data
\* adds 1 each time it returns
number_of_data_added(t, ix) ==
    Cardinality({k \in CallsOf(t, "post_modify_data") :
                    task[t].calls[k].ok /\ task[t].calls[k].index = ix})

\* C11: jobs are run in FIFO order: of two jobs that are both run, the one
\* appended earlier (ids number the jobs in append order, across add_jobs
\* calls and within one) is dequeued first, and the job a thread runs is the
\* last one dequeued, so the earlier one starts its pipeline first.
C11_FifoOrder ==
    /\ \A i, j \in DOMAIN run_order : i < j => run_order[i] < run_order[j]
    /\ \A t \in TaskIds :
          (InThread(t) /\ task[t].pc # "start_job" /\ task[t].job # EmptyJob)
          => task[t].job.id = run_order[Len(run_order)]

\* jobs of two add_jobs calls, the later call made while the worker was
\* running, have all been run and the last is in the pipeline
C11_Witness ==
    /\ Len(run_order) = MaxJobs
    /\ \E t \in TaskIds : InExecutor(t) /\ task[t].job.id = MaxJobs

\* C12: every job taken from the queue is handed to the executor exactly
\* once; whether it succeeds or fails it is never re-enqueued and never run a
\* second time.
C12_HandedExactlyOnce ==
    /\ \A t \in TaskIds : task[t].pc = "returned" => task[t].starts = 1
    /\ \A i, j \in DOMAIN run_order : i # j => run_order[i] # run_order[j]
    /\ Ids(queue) \cap Range(run_order) = {}

\* C12 amended: a job taken from the queue is handed to the executor at most
\* once: exactly once when its settings carry target_index_type, and not at
\* all when they do not (start_job fails it before execute.start); it is
\* never re-enqueued and never dequeued a second time.
C12_HandedAtMostOnce ==
    /\ \A t \in TaskIds :
          /\ task[t].starts <= 1
          /\ task[t].pc = "returned"
             => task[t].starts = IF task[t].job.form = "no_type" THEN 0 ELSE 1
    /\ \A i, j \in DOMAIN run_order : i # j => run_order[i] # run_order[j]
    /\ Ids(queue) \cap Range(run_order) = {}

\* a job failed in the executor after an earlier job was run, and a job
\* submitted meanwhile waits in the queue
C12_Witness ==
    /\ Len(run_order) >= 2
    /\ queue # <<>>
    /\ \E t \in TaskIds : /\ task[t].pc = "returned"
                          /\ task[t].result = "failed"
                          /\ task[t].starts = 1

\* C13: a job whose target type is none of full_text, full_vector,
\* chunked_pairs ends as an error or a job failure; it never finishes as a
\* success with no stage having run.
C13_UnknownTypeFails ==
    \A t \in TaskIds :
        (task[t].pc = "returned" /\ task[t].job.type \notin PipelineTypes)
        => task[t].result = "failed"

\* C14: each job performs at most one write to a data index, exactly one when
\* it completes successfully, and the write goes to the index its settings
\* name for its own target type.
C14_OneDataWrite ==
    \A t \in TaskIds :
        /\ Cardinality(CallsOf(t, "post_add_data")) <= 1
        /\ \A k \in CallsOf(t, "post_add_data") :
              task[t].calls[k].index = DataIndex(task[t].job)
        /\ (task[t].pc = "returned" /\ task[t].result = "True")
           => \E k \in CallsOf(t, "post_add_data") : task[t].calls[k].ok

\* C15: when the metadata update fails after the primary write succeeded,
\* add_to_es does not raise, execute.start returns with the context cleared
\* and the step idle, the primary write is kept (it is the one call before
\* the update, and it returned), and start_job reports the success of every
\* job whose title it could log.
C15_MetadataFailureKeepsSuccess ==
    \A t \in TaskIds :
        (\E k \in CallsOf(t, "post_modify_data") : ~task[t].calls[k].ok)
        => /\ ~task[t].exc
           /\ task[t].pc \in {"reset", "returned"}
           /\ task[t].calls[1] = post_add_data(DataIndex(task[t].job), TRUE)
           /\ task[t].pc = "returned"
              => /\ info = NoInfo /\ output = "None" /\ current_step = "idle"
                 /\ task[t].trace[Len(task[t].trace)] = "idle"
                 /\ task[t].job.form = "ok" => task[t].result = "True"

\* a job whose metadata update raised has returned from start_job as a success
C15_Witness ==
    \E t \in TaskIds :
        /\ task[t].pc = "returned"
        /\ task[t].result = "True"
        /\ \E k \in CallsOf(t, "post_modify_data") : ~task[t].calls[k].ok

\* C16: every job that completes successfully with the store reachable (no
\* store call of its run failed) adds exactly 1 to number_of_data of the
\* metadata record of its type, whatever optional fields its settings carry,
\* and changes no other metadata record. Jobs run one after the other, so n
\* such jobs add n.
C16_NumberOfDataPlusOne ==
    \A t \in TaskIds :
        (task[t].pc = "returned" /\ task[t].result = "True" /\ FailedCalls(t) = {})
        => /\ number_of_data_added(t, MetadataIndex(task[t].job)) = 1
           /\ \A k \in CallsOf(t, "post_modify_data") :
                 task[t].calls[k].index = MetadataIndex(task[t].job)

\* C17: after each job finishes its outcome is recorded in the success or the
\* failure counter, and the counters are part of what get_status returns.
C17_OutcomesCounted ==
    /\ (status = "idle" /\ \A t \in TaskIds : task[t] = NoTask)
       => Len(jobs_history.success) + Len(jobs_history.failed) = Len(run_order)
    /\ reply.kind = "summary" => "jobs_history" \in SummaryKeys

\* ------------------------------------- embed_text (_execute_job.py 151-189)
\* The loop of embed_text followed iteration by iteration on one chunk list.
MaxChunks == 4
MaxBatchSize == 3
dimension == 2

Texts == {"a", "b"}

SeqsUpTo(S, n) == UNION {[1..k -> S] : k \in 0..n}

\* the vector the embedding provider returns for a text: `dimension` numbers,
\* different for different texts
EmbeddingOf(x) == [k \in 1..dimension |-> (IF x = "a" THEN 1 ELSE 4) * k]

\* _ModelsApi.embedding: one embeddings.create call for the whole batch, the
\* vectors of the response's data items in the order of the inputs
embedding(text_list) == [k \in 1..Len(text_list) |-> EmbeddingOf(text_list[k])]

\* the Python slice seq[i:j], 0 <= i
Slice(seq, i, j) == SubSeq(seq, i + 1, Min(j, Len(seq)))

\* a batch slice that stops one item early
batch_text_short(chunks, i, batch_size) == Slice(chunks, i, i + batch_size - 1)

\* line 168: batch_text = self.output[i:i+batch_size]
batch_text(chunks, i, batch_size) == Slice(chunks, i, i + batch_size)

\* lines 173-177: one {"text", "vector"} dict per item of zip(batch_text,
\* batch_vector), appended in order
Pairs(bt, bv) ==
    [k \in 1..Min(Len(bt), Len(bv)) |-> [text |-> bt[k], vector |-> bv[k]]]

RECURSIVE SumAt(_, _)
SumAt(vectors, k) ==
    IF vectors = <<>> THEN 0 ELSE Head(vectors)[k] + SumAt(Tail(vectors), k)

\* np.mean(output, axis=0), line 184: of a list of n vectors the array of the
\* componentwise means, each kept as the fraction <<sum, n>>; of an empty
\* list the scalar nan (numpy warns "Mean of empty slice" and returns nan)
np_mean(vectors) ==
    IF vectors = <<>>
    THEN [kind |-> "ndarray", shape |-> <<>>, nan |-> TRUE, data |-> <<>>]
    ELSE [kind |-> "ndarray", shape |-> <<Len(vectors[1])>>, nan |-> FALSE,
          data |-> [k \in 1..Len(vectors[1]) |->
                       <<SumAt(vectors, k), Len(vectors)>>]]

\* embed_text is entered with the chunk list in self.output; batch_size is
\* cfg.batch_size_base or the model's recommended_batch_size, lines 160-163
InitEmbed ==
    /\ Constructed
    /\ \E chunks \in SeqsUpTo(Texts, MaxChunks), bs \in 1..MaxBatchSize,
          type \in {"full_vector", "chunked_pairs"} :
          calc = [kind |-> "embed_text", pc |-> "for", type |-> type,
                  chunks |-> chunks, batch_size |-> bs, i |-> 0,
                  output |-> <<>>, self_output |-> [kind |-> "list", items |-> chunks]]

\* one iteration of `for i in range(0, len(self.output), batch_size)`
EmbedBatch ==
    /\ calc.kind = "embed_text" /\ calc.pc = "for"
    /\ calc.i < Len(calc.chunks)
    /\ LET bt == batch_text(calc.chunks, calc.i, calc.batch_size)
           bv == embedding(bt)
       IN  calc' = [calc EXCEPT
                      !.output = IF calc.type = "full_vector" THEN @ \o bv
                                 ELSE @ \o Pairs(bt, bv),
                      !.i = @ + calc.batch_size]
    /\ UNCHANGED progVars

\* the loop is over: lines 181-189, the pooling of a full_vector job and the
\* assignment to self.output
EmbedStore ==
    /\ calc.kind = "embed_text" /\ calc.pc = "for"
    /\ calc.i >= Len(calc.chunks)
    /\ calc' = [calc EXCEPT
                  !.pc = "done",
                  !.self_output = IF calc.type = "full_vector"
                                  THEN np_mean(calc.output)
                                  ELSE [kind |-> "list", items |-> calc.output]]
    /\ UNCHANGED progVars

NextEmbed == EmbedBatch \/ EmbedStore

SpecEmbed == InitEmbed /\ [][NextEmbed]_vars

\* C18: embedding preserves input order for every chunk list and every batch
\* size: for a chunked_pairs job the output has exactly one pair per chunk and
\* the i-th pair holds the i-th chunk's text with the vector the provider
\* returned for that text; nothing is dropped, duplicated or pooled. (While
\* the loop runs the pairs built so far are those of the chunks before i.)
C18_PairsInInputOrder ==
    (calc.kind = "embed_text" /\ calc.type = "chunked_pairs")
    => /\ calc.output =
             [k \in 1..Min(calc.i, Len(calc.chunks)) |->
                 [text |-> calc.chunks[k], vector |-> EmbeddingOf(calc.chunks[k])]]
       /\ calc.pc = "done"
          => /\ calc.self_output.kind = "list"
             /\ Len(calc.self_output.items) = Len(calc.chunks)
             /\ \A k \in 1..Len(calc.chunks) :
                   calc.self_output.items[k] =
                      [text |-> calc.chunks[k], vector |-> EmbeddingOf(calc.chunks[k])]

\* a list of different texts that took several batches, the last one partial
C18_Witness ==
    /\ calc.kind = "embed_text" /\ calc.type = "chunked_pairs" /\ calc.pc = "done"
    /\ Len(calc.chunks) = MaxChunks /\ calc.batch_size = MaxBatchSize
    /\ calc.chunks[1] # calc.chunks[2]

\* C19: for every full_vector job the stored vector is the elementwise mean
\* of the vectors of all the document's chunks and its length is the model's
\* dimension, for any number of chunks the chunking stage can produce (the
\* sentence chunker returns no chunk for a document without text units).
C19_MeanPooling ==
    (calc.kind = "embed_text" /\ calc.type = "full_vector" /\ calc.pc = "done")
    => /\ calc.self_output.kind = "ndarray"
       /\ ~calc.self_output.nan
       /\ calc.self_output.shape = <<dimension>>
       /\ \A k \in 1..dimension :
             calc.self_output.data[k] =
                <<SumAt(embedding(calc.chunks), k), Len(calc.chunks)>>

\* ------------------- naive_sentence_chunking.start (_chunking.py 38-73)
\* The chunking of one content unit followed sentence by sentence. A Python
\* string is kept as the list str.split(" ") gives for it: a non-empty list
\* of tokens, a token being the list of the words written in it without a
\* space between them (<<>> is the empty token, so "" is << <<>> >>).
MaxTokens == 4
MaxChunkSize == 3

\* the words of a text: one that ends with a period and one that does not
PlainWord == "w"
PeriodWord == "x."
TokensOfText == {<<>>, <<PlainWord>>, <<PeriodWord>>}

\* content["text"]: each token with the separator written before it (the
\* separator of the first token stands for the start of the text)
ContentTexts ==
    UNION {{tx \in [1..n -> [sep : {" ", "\n"}, tok : TokensOfText]] :
               tx[1].sep = "\n"} : n \in 1..MaxTokens}

EndsWithPeriod(tok) == tok # <<>> /\ tok[Len(tok)] = PeriodWord

\* re.split(r'(?<=\.) |\n', text), line 54: a new sentence starts after every
\* newline and after every space that follows a period
RECURSIVE re_split(_)
re_split(tx) ==
    IF Len(tx) = 1 THEN << <<tx[1].tok>> >>
    ELSE LET n    == Len(tx)
             init == re_split(SubSeq(tx, 1, n - 1))
         IN  IF tx[n].sep = "\n" \/ EndsWithPeriod(tx[n - 1].tok)
             THEN Append(init, <<tx[n].tok>>)
             ELSE [init EXCEPT ![Len(init)] = Append(@, tx[n].tok)]

\* a + b on strings: the last token of a and the first of b become one token
Cat(a, b) == SubSeq(a, 1, Len(a) - 1) \o <<a[Len(a)] \o b[1]>> \o Tail(b)

\* s + " "
WithSpace(a) == Append(a, <<>>)

RECURSIVE lstrip(_)
lstrip(a) == IF Len(a) > 1 /\ a[1] = <<>> THEN lstrip(Tail(a)) ELSE a

RECURSIVE rstrip(_)
rstrip(a) ==
    IF Len(a) > 1 /\ a[Len(a)] = <<>> THEN rstrip(SubSeq(a, 1, Len(a) - 1)) ELSE a

\* str.strip(): without the leading and the trailing spaces
strip(a) == rstrip(lstrip(a))

\* the words of a string: its tokens that are not empty
Words(a) == {k \in DOMAIN a : a[k] # <<>>}

\* line 61: len(chunked_text.split(" ")) + len(tokens_in_sentence) < chunk_size
fits(chunked_text, sentence, chunk_size) ==
    Len(chunked_text) + Len(sentence) < chunk_size

\* start is entered for a content unit with a "text"; line 51: chunked_text = ""
InitChunk ==
    /\ Constructed
    /\ \E tx \in ContentTexts, cs \in 1..MaxChunkSize :
          calc = [kind |-> "naive_sentence_chunking", pc |-> "split",
                  text |-> tx, chunk_size |-> cs, sentences |-> <<>>, k |-> 1,
                  chunked_text |-> << <<>> >>, chunked_text_list |-> <<>>]

\* line 54 (the loop of lines 57-59 computes two totals nothing reads)
SplitSentences ==
    /\ calc.kind = "naive_sentence_chunking" /\ calc.pc = "split"
    /\ calc' = [calc EXCEPT !.sentences = re_split(calc.text), !.pc = "for"]
    /\ UNCHANGED progVars

\* lines 60-66, one sentence: it is added to the chunk with a space after it
\* when the test holds; otherwise the chunk is emitted stripped, whatever it
\* holds, and the sentence alone (no space after it) starts the next chunk
ChunkSentence ==
    /\ calc.kind = "naive_sentence_chunking" /\ calc.pc = "for"
    /\ calc.k <= Len(calc.sentences)
    /\ LET sentence == calc.sentences[calc.k]
       IN  IF fits(calc.chunked_text, sentence, calc.chunk_size)
           THEN calc' = [calc EXCEPT
                           !.chunked_text = Cat(@, WithSpace(sentence)),
                           !.k = @ + 1]
           ELSE calc' = [calc EXCEPT
                           !.chunked_text_list = Append(@, strip(calc.chunked_text)),
                           !.chunked_text = sentence,
                           !.k = @ + 1]
    /\ UNCHANGED progVars

\* lines 68-69: after the last sentence the chunk is emitted stripped
ChunkLast ==
    /\ calc.kind = "naive_sentence_chunking" /\ calc.pc = "for"
    /\ calc.k > Len(calc.sentences)
    /\ calc' = [calc EXCEPT
                  !.chunked_text_list = Append(@, strip(calc.chunked_text)),
                  !.pc = "done"]
    /\ UNCHANGED progVars

NextChunk == SplitSentences \/ ChunkSentence \/ ChunkLast

SpecChunk == InitChunk /\ [][NextChunk]_vars

\* C20: fixed-sentence chunking never emits a chunk of more than chunk_size
\* words, for every content unit and every chunk_size >= 1.
C20_ChunkWithinSize ==
    calc.kind = "naive_sentence_chunking"
    => \A c \in DOMAIN calc.chunked_text_list :
          Cardinality(Words(calc.chunked_text_list[c])) <= calc.chunk_size

\* " ".join(sentences[a+1 .. b]): the token lists one after the other ("" for
\* no sentence)
RECURSIVE JoinSentences(_, _, _)
JoinSentences(sentences, a, b) ==
    IF a >= b THEN << <<>> >>
    ELSE IF a + 1 = b THEN sentences[b]
    ELSE JoinSentences(sentences, a, b - 1) \o sentences[b]

\* C21: for a content unit that has text, reading the sentences of the
\* emitted chunks in chunk order gives back the unit's sentence sequence:
\* the sentences are cut into consecutive groups, one per chunk, and every
\* chunk is the text of the sentences of its group, whole and in order (no
\* sentence dropped, duplicated, split or reordered).
C21_ChunksReproduceSentences ==
    (calc.kind = "naive_sentence_chunking" /\ calc.pc = "done")
    => LET n == Len(calc.sentences)
           m == Len(calc.chunked_text_list)
       IN  \E cut \in [0..m -> 0..n] :
              /\ cut[0] = 0 /\ cut[m] = n
              /\ \A j \in 1..m :
                    /\ cut[j - 1] <= cut[j]
                    /\ calc.chunked_text_list[j] =
                          strip(JoinSentences(calc.sentences, cut[j - 1], cut[j]))

\* C26: the chunking is greedy: the chunk is closed before a sentence only
\* when the chunk's words plus the sentence's words would exceed chunk_size;
\* a sentence that still fits (total <= chunk_size) is added to the current
\* chunk; and the last partial chunk of the unit is always emitted.
C26_Greedy ==
    [][(calc.kind = "naive_sentence_chunking" /\ calc.pc = "for")
       => IF calc.k <= Len(calc.sentences)
          THEN LET total == Cardinality(Words(calc.chunked_text))
                            + Cardinality(Words(calc.sentences[calc.k]))
               IN  (total <= calc.chunk_size)
                   <=> (calc'.chunked_text_list = calc.chunked_text_list)
          ELSE calc'.chunked_text_list =
                  Append(calc.chunked_text_list, strip(calc.chunked_text))]_vars

\* C30: the chunking never emits an empty chunk: every chunk it returns holds
\* at least one sentence (so at least one word) of its content unit, for
\* every input text and every chunk_size >= 1.
C30_NoEmptyChunk ==
    calc.kind = "naive_sentence_chunking"
    => \A c \in DOMAIN calc.chunked_text_list :
          Words(calc.chunked_text_list[c]) # {}

\* ----------------------- naive_word_chunking.start (_chunking.py 93-101)
\* The loop of start followed unit by unit. A unit is the list of its tokens,
\* content.split(" "), each token written as its position in the unit; a
\* window " ".join(tokens[i:i + chunk_size]) is kept with the unit and the
\* offset i it was cut at.
MaxUnits == 2
MaxWords == 3

\* self.overlap as the fraction <<p, q>>, 0 <= p/q < 1: none, the 0.2 of
\* config.py, a half
Overlaps == {<<0, 1>>, <<1, 5>>, <<1, 2>>}

UnitOf(n) == [k \in 1..n |-> k]

\* np.arange(0, n, step), step >= 1: 0, step, 2 step, ... below n
RECURSIVE arange(_, _, _)
arange(from, n, step) ==
    IF from >= n THEN <<>> ELSE <<from>> \o arange(from + step, n, step)

\* line 96: int(self.chunk_size * self.overlap)
overlap_words(chunk_size, r) == (chunk_size * r[1]) \div r[2]

\* line 98: one window per index, tokens[i:i + chunk_size]
windows(u, tokens, chunk_size, indices) ==
    [j \in 1..Len(indices) |->
        [unit |-> u, start |-> indices[j],
         words |-> Slice(tokens, indices[j], indices[j] + chunk_size)]]

InitWord ==
    /\ Constructed
    /\ \E lens \in UNION {[1..n -> 1..MaxWords] : n \in 1..MaxUnits},
          cs \in 1..MaxChunkSize, r \in Overlaps :
          calc = [kind |-> "naive_word_chunking", pc |-> "for",
                  retrieved_text |-> [u \in DOMAIN lens |-> UnitOf(lens[u])],
                  chunk_size |-> cs, overlap |-> r, u |-> 1,
                  chunked_text |-> <<>>, chunked_texts |-> <<>>]

\* lines 95-98, one unit: the windows are computed into the local
\* chunked_text; nothing is added to chunked_texts
WordUnit ==
    /\ calc.kind = "naive_word_chunking" /\ calc.pc = "for"
    /\ calc.u <= Len(calc.retrieved_text)
    /\ LET tokens  == calc.retrieved_text[calc.u]
           overlap == overlap_words(calc.chunk_size, calc.overlap)
           indices == arange(0, Len(tokens), calc.chunk_size - overlap)
       IN  calc' = [calc EXCEPT
                      !.chunked_text = windows(calc.u, tokens, calc.chunk_size, indices),
                      !.u = @ + 1]
    /\ UNCHANGED progVars

\* line 100: return chunked_texts
WordReturn ==
    /\ calc.kind = "naive_word_chunking" /\ calc.pc = "for"
    /\ calc.u > Len(calc.retrieved_text)
    /\ calc' = [calc EXCEPT !.pc = "done"]
    /\ UNCHANGED progVars

NextWord == WordUnit \/ WordReturn

SpecWord == InitWord /\ [][NextWord]_vars

\* C22: fixed-word chunking with chunk_size C and overlap r returns, for
\* each input unit, windows whose consecutive start offsets differ by
\* exactly C*(1-r) words and each of which has at most C words.
C22_WindowsReturned ==
    (calc.kind = "naive_word_chunking" /\ calc.pc = "done")
    => LET ret == calc.chunked_texts
       IN  /\ \A u \in DOMAIN calc.retrieved_text :
                 \E j \in DOMAIN ret : ret[j].unit = u
           /\ \A j \in DOMAIN ret :
                 /\ Len(ret[j].words) <= calc.chunk_size
                 /\ (j + 1 \in DOMAIN ret /\ ret[j + 1].unit = ret[j].unit)
                    => (ret[j + 1].start - ret[j].start) * calc.overlap[2]
                       = calc.chunk_size * (calc.overlap[2] - calc.overlap[1])

\* C23: the returned windows exhaust the input: every token of every input
\* unit is in at least one returned chunk, so a non-empty input yields a
\* non-empty result.
C23_WindowsExhaustInput ==
    (calc.kind = "naive_word_chunking" /\ calc.pc = "done")
    => LET ret == calc.chunked_texts
       IN  /\ \A u \in DOMAIN calc.retrieved_text :
                 \A k \in DOMAIN calc.retrieved_text[u] :
                    \E j \in DOMAIN ret :
                       /\ ret[j].unit = u
                       /\ k > ret[j].start /\ k <= ret[j].start + Len(ret[j].words)
           /\ calc.retrieved_text # <<>> => ret # <<>>

\* ------------ chunk_text and the batch size of embed_text (_execute_job.py)
\* One full_vector or chunked_pairs job followed from chunk_text to the
\* batch size embed_text resolves.
MaxParam == 2

\* config.py line 7
batch_size_base == 8

\* config.py lines 9-22, the fields the stages read
embedding_models_info ==
    [m \in {"embedding/BAAI/bge-m3", "text-embedding-ada-002"} |->
        [sequence_length |-> 8192, recommended_batch_size |-> 12]]

\* info["embedding_model"]: the models of the registry and one it lacks
EmbeddingModels == DOMAIN embedding_models_info \cup {"other-model"}

\* the parameters set_instance_variable reads from info (lines 139-147)
SemanticParams ==
    [chunk_base : {"sentence", "word", "paragraph", "chapter"},
     max_tokens : 0..MaxParam, min_tokens : 0..MaxParam,
     min_base_chunks : 1..MaxParam, num_overlap_base_chunks : 1..MaxParam]

\* semantic_chunking.check, lines 129-136
semantic_check(self) ==
    IF self.chunk_base \notin {"sentence", "word", "paragraph"} THEN FALSE
    ELSE IF self.max_tokens < 1 \/ self.min_tokens < 1
            \/ self.max_tokens < self.min_tokens THEN FALSE
    ELSE IF self.min_base_chunks <= self.num_overlap_base_chunks THEN FALSE
    ELSE TRUE

\* embed_text lines 160-163
batch_size_of(embedding_model) ==
    IF embedding_model \in DOMAIN embedding_models_info
       /\ "recommended_batch_size" \in DOMAIN embedding_models_info[embedding_model]
    THEN embedding_models_info[embedding_model]["recommended_batch_size"]
    ELSE batch_size_base

InitStage ==
    /\ Constructed
    /\ \E type \in {"full_vector", "chunked_pairs"}, model \in EmbeddingModels,
          prm \in SemanticParams :
          calc = [kind |-> "stages", pc |-> "chunk_text", type |-> type,
                  embedding_model |-> model, info |-> prm,
                  chunk_size |-> 0, strategy_ran |-> FALSE, batch_size |-> 0,
                  error |-> "none"]

\* chunk_text of a full_vector job, lines 195-198: chunk_size is read from the
\* registry entry of the job's model (KeyError when the registry has none),
\* then the sentence chunker runs
ChunkTextFullVector ==
    /\ calc.kind = "stages" /\ calc.pc = "chunk_text" /\ calc.type = "full_vector"
    /\ IF calc.embedding_model \in DOMAIN embedding_models_info
       THEN calc' = [calc EXCEPT
                       !.chunk_size =
                          embedding_models_info[calc.embedding_model].sequence_length \div 4,
                       !.strategy_ran = TRUE,
                       !.pc = "embed_text"]
       ELSE calc' = [calc EXCEPT !.pc = "failed", !.error = "KeyError: embedding_model"]
    /\ UNCHANGED progVars

\* chunk_text of a chunked_pairs job, lines 200-202: set_instance_variable
\* copies the parameters, then semantic_chunking.start runs the splitter,
\* which returns or raises; check is not called
ChunkTextChunkedPairs ==
    /\ calc.kind = "stages" /\ calc.pc = "chunk_text" /\ calc.type = "chunked_pairs"
    /\ \E ok \in BOOLEAN :
          calc' = [calc EXCEPT
                     !.strategy_ran = TRUE,
                     !.pc = IF ok THEN "embed_text" ELSE "failed",
                     !.error = IF ok THEN "none" ELSE "splitter"]
    /\ UNCHANGED progVars

\* embed_text lines 159-163
EmbedBatchSize ==
    /\ calc.kind = "stages" /\ calc.pc = "embed_text"
    /\ calc' = [calc EXCEPT !.batch_size = batch_size_of(calc.embedding_model),
                            !.pc = "embedding"]
    /\ UNCHANGED progVars

NextStage == ChunkTextFullVector \/ ChunkTextChunkedPairs \/ EmbedBatchSize

SpecStage == InitStage /\ [][NextStage]_vars

\* C24: a chunked_pairs job whose semantic-chunking parameters violate a
\* precondition (chunk_base outside sentence, word, paragraph; min_tokens < 1;
\* max_tokens < min_tokens; min_base_chunks <= num_overlap_base_chunks) is
\* rejected before the semantic strategy runs: it fails at chunk_text and
\* never reaches embed_text.
C24_InvalidParamsRejected ==
    (calc.kind = "stages" /\ calc.type = "chunked_pairs"
     /\ \/ calc.info.chunk_base \notin {"sentence", "word", "paragraph"}
        \/ calc.info.min_tokens < 1
        \/ calc.info.max_tokens < calc.info.min_tokens
        \/ calc.info.min_base_chunks <= calc.info.num_overlap_base_chunks)
    => /\ ~calc.strategy_ran
       /\ calc.pc \in {"chunk_text", "failed"}

\* C25: the batch size used for embedding is the model's
\* recommended_batch_size when the registry has one and batch_size_base
\* otherwise, and a full_vector or chunked_pairs job whose model the registry
\* does not know is embedded with the default batch size: it does not fail
\* because the model is unknown.
C25_BatchSizeResolved ==
    calc.kind = "stages"
    => /\ calc.pc = "embedding"
          => calc.batch_size =
                IF calc.embedding_model \in DOMAIN embedding_models_info
                THEN embedding_models_info[calc.embedding_model].recommended_batch_size
                ELSE batch_size_base
       /\ calc.embedding_model \notin DOMAIN embedding_models_info
          => calc.error # "KeyError: embedding_model"

\* ------------------------------- add_new_jobs (_job_management.py 79-81)
\* One call of add_new_jobs followed append by append, on any queue the
\* deque can hold and any submission of up to max_queue_length + 1 jobs.
LastN(seq, n) == IF Len(seq) <= n THEN seq ELSE SubSeq(seq, Len(seq) - n + 1, Len(seq))

InitQueue ==
    /\ Constructed
    /\ \E q \in SeqsUpTo(JobIds, max_queue_length),
          n \in 1..(max_queue_length + 1) :
          \E jobs \in [1..n -> JobIds] :
             calc = [kind |-> "add_new_jobs", pc |-> "for", Q |-> q,
                     jobs |-> jobs, k |-> 1, queue |-> q]

\* line 80-81: one `self.queue.append(job)`
QueueAppend ==
    /\ calc.kind = "add_new_jobs" /\ calc.pc = "for"
    /\ calc.k <= Len(calc.jobs)
    /\ calc' = [calc EXCEPT !.queue = DequeAppend(@, calc.jobs[calc.k]),
                            !.k = @ + 1]
    /\ UNCHANGED progVars

\* the loop is over
QueueReturn ==
    /\ calc.kind = "add_new_jobs" /\ calc.pc = "for"
    /\ calc.k > Len(calc.jobs)
    /\ calc' = [calc EXCEPT !.pc = "done"]
    /\ UNCHANGED progVars

NextQueue == QueueAppend \/ QueueReturn

SpecQueue == InitQueue /\ [][NextQueue]_vars

\* C27: when add_new_jobs appends jobs J to a queue Q and len(Q) + len(J)
\* exceeds max_queue_length, the queue afterwards holds exactly the last
\* max_queue_length elements of Q followed by J, in order: the oldest entries
\* are the ones removed and the newest job is always kept.
C27_KeepsNewest ==
    (calc.kind = "add_new_jobs" /\ calc.pc = "done"
     /\ Len(calc.Q) + Len(calc.jobs) > max_queue_length)
    => /\ calc.queue = LastN(calc.Q \o calc.jobs, max_queue_length)
       /\ calc.queue[Len(calc.queue)] = calc.jobs[Len(calc.jobs)]

\* a full queue took a submission longer than the queue: all of Q and the
\* first job of the submission were removed
C27_Witness ==
    /\ calc.kind = "add_new_jobs" /\ calc.pc = "done"
    /\ Len(calc.Q) = max_queue_length
    /\ Len(calc.jobs) = max_queue_length + 1
    /\ calc.jobs[1] # calc.jobs[2]
    /\ calc.queue = Tail(calc.jobs)

\* C28: the metadata update of a job is issued only after the job's primary
\* write has returned: every post_modify_data call of a run comes after a
\* post_add_data call that returned; if the primary write raises, the run
\* issues no call on the metadata record, adds nothing to number_of_data, and
\* the job ends as a failure.
C28_MetadataAfterPrimaryWrite ==
    \A t \in TaskIds :
        /\ \A k \in CallsOf(t, "post_modify_data") :
              \E a \in CallsOf(t, "post_add_data") : a < k /\ task[t].calls[a].ok
        /\ (\E a \in CallsOf(t, "post_add_data") : ~task[t].calls[a].ok)
           => /\ CallsOf(t, "post_modify_data") = {}
              /\ number_of_data_added(t, MetadataIndex(task[t].job)) = 0
              /\ task[t].pc = "returned" /\ task[t].result = "failed"
              /\ task[t].exc

\* the primary write of a job raised and start_job returned the failure
C28_Witness ==
    \E t \in TaskIds :
        /\ task[t].pc = "returned"
        /\ task[t].calls = <<post_add_data(DataIndex(task[t].job), FALSE)>>

\* C29: no wake-up is lost: between the steps of the event loop, status idle
\* implies that the queue is empty and that there is no current job, and a
\* job in the queue always has a start_jobs loop created for it.
C29_NoLostWakeup ==
    /\ status = "idle" => (queue = <<>> /\ current_job = EmptyJob)
    /\ queue # <<>> => \E t \in TaskIds : LoopActive(t)

\* the worker ran jobs of two submissions and is idle again
C29_Witness ==
    /\ status = "idle"
    /\ Len(run_order) = MaxJobs
    /\ \A t \in TaskIds : task[t] = NoTask

====
